---- MODULE Spec2Model ----
(***************************************************************************)
(* Model of dnnviewer's Keras bridge: the model sequence                   *)
(* (KerasModelSequence), the network extractor (KerasNetworkExtractor)      *)
(* and the epoch navigation callback of the top pane.                       *)
(***************************************************************************)
EXTENDS Integers, Sequences, FiniteSets, TLC

VARIABLES
    model_paths,          \* KerasModelSequence.model_paths (list of paths)
    number_epochs,        \* AbstractModelSequence.number_epochs
    current_epoch_index,  \* AbstractModelSequence.current_epoch_index
    current_model,        \* KerasModelSequence.current_model (NoModel = None)
    grapher,              \* the Grapher: [properties, layers]
    test_data,            \* KerasModelSequence.test_data
    op,                   \* the call that ran last: [name, arg, index]
    ret,                  \* how it ended: [exc, val, model]
    navs,                 \* navigation methods called by the last call
    x_in,                 \* argument of a stand-alone call (extractor, lists)
    x_out                 \* result of a stand-alone call

vars == <<model_paths, number_epochs, current_epoch_index, current_model,
          grapher, test_data, op, ret, navs, x_in, x_out>>

seqVars == <<model_paths, number_epochs, current_epoch_index, current_model,
             grapher, test_data, op, ret, navs>>

----------------------------------------------------------------------------
(* Bounds of the model *)

MaxLayers == 3     \* layers of a Keras model given to the extractor
MaxNameLen == 2    \* characters of a checkpoint name after the literal prefix
MaxFiles == 2      \* files returned by one glob
MaxDirs == 2       \* directories given to list_models

----------------------------------------------------------------------------
(* Sequences *)

SeqsUpTo(S, n) == UNION {[1..k -> S] : k \in 0..n}

Last(s) == s[Len(s)]

RECURSIVE Flat(_)
Flat(ss) == IF ss = <<>> THEN <<>> ELSE Head(ss) \o Flat(Tail(ss))

----------------------------------------------------------------------------
(* Keras models: what the extractor reads of them *)

WeightClasses == {"Dense", "Conv2D"}
PoolingClass == "MaxPooling2D"
PlainClasses == {"Flatten", PoolingClass, "Activation", "Dropout",
                 "ActivityRegularization", "Reshape"}

KerasLayers ==
    {[cls |-> c, trainable |-> t, use_bias |-> b] :
        c \in WeightClasses, t \in BOOLEAN, b \in BOOLEAN}
    \cup {[cls |-> "BatchNormalization", trainable |-> t, use_bias |-> FALSE] :
            t \in BOOLEAN}
    \cup {[cls |-> c, trainable |-> TRUE, use_bias |-> FALSE] : c \in PlainClasses}

KerasModel(id, sequential, layers) ==
    [id |-> id, sequential |-> sequential, layers |-> layers]

NoModel == KerasModel("None", FALSE, <<>>)

\* len(keras_layer.get_weights())
NumWeights(kl) ==
    IF kl.cls \in WeightClasses THEN (IF kl.use_bias THEN 2 ELSE 1)
    ELSE IF kl.cls = "BatchNormalization" THEN 4
    ELSE 0

Var(i, v) == [layer |-> i, var |-> v]
NoGrad == Var(0, "None")

\* keras_layer.trainable_weights of the layer at position i
TrainableWeights(kl, i) ==
    IF ~kl.trainable THEN <<>>
    ELSE IF kl.cls \in WeightClasses
         THEN <<Var(i, "kernel")>> \o (IF kl.use_bias THEN <<Var(i, "bias")>> ELSE <<>>)
    ELSE IF kl.cls = "BatchNormalization" THEN <<Var(i, "gamma"), Var(i, "beta")>>
    ELSE <<>>

\* model.trainable_variables: the layers' trainable weights, in layer order
TrainableVariables(model) ==
    Flat([i \in 1..Len(model.layers) |-> TrainableWeights(model.layers[i], i)])

----------------------------------------------------------------------------
(* Grapher: the displayed layer list (Grapher.reset, Grapher.add_layer) *)

GrapherReset(layers) == <<>>

GrapherAddLayer(layers, layer) == Append(layers, layer)

\* A layer of the grapher (Input, Dense or Convo2D) with the attributes the
\* extractor sets; "model" is the Keras model the extractor built it from.
NewLayer(kind, name, grad, unit_names, model) ==
    [kind |-> kind, name |-> name, model |-> model.id, grad |-> grad,
     bias |-> FALSE, flatten_output |-> FALSE, pooling |-> FALSE,
     activation |-> "none", dropout |-> FALSE, batch_normalization |-> FALSE,
     unit_names |-> unit_names]

InputName == 0

----------------------------------------------------------------------------
(* KerasNetworkExtractor *)

\* compute_gradients: None without test sample or when the tape fails,
\* else one gradient per variable of model.trainable_variables, in its order
compute_gradients(model, td, tape_ok) ==
    IF td.has_test_sample /\ tape_ok
    THEN [none |-> FALSE, list |-> TrainableVariables(model)]
    ELSE [none |-> TRUE, list |-> <<>>]

\* Python truth value of grads ("if grads"): None and [] are false
Truthy(grads) == ~grads.none /\ Len(grads.list) > 0

Raise(st, e) == [st EXCEPT !.exc = e]

\* position of the exception: 0 outside the loop over the layers
NotInLoop == 0

\* _process_add_layer: pending properties, bias, activation, then add_layer
_process_add_layer(st, layer, kl) ==
    LET full == [layer EXCEPT !.dropout = st.training_props,
                              !.batch_normalization = st.input_props,
                              !.bias = kl.use_bias,
                              !.activation = "own"]
    IN [st EXCEPT !.layers = GrapherAddLayer(st.layers, full),
                  !.previous_layer = Len(st.layers) + 1]

\* grads[idx_grads] of the Dense and Conv2D branches
GradIndex(st) == st.idx_grads + 1

\* The Dense and Conv2D branches: the layer gets the kernel weights and
\* grads[idx_grads] when grads is true, else None
WeightBranch(st, kl, i, model, grads) ==
    LET kind == IF kl.cls = "Dense" THEN "Dense" ELSE "Convo2D"
    IN IF Truthy(grads) /\ GradIndex(st) > Len(grads.list)
       THEN Raise(st, "IndexError")
       ELSE _process_add_layer(st,
                NewLayer(kind, i,
                         IF Truthy(grads) THEN grads.list[GradIndex(st)] ELSE NoGrad,
                         "none", model),
                kl)

FlattenBranch(st, model) ==
    IF st.previous_layer /= 0 /\ st.layers[st.previous_layer].kind = "Convo2D"
    THEN [st EXCEPT !.layers[st.previous_layer].flatten_output = TRUE]
    ELSE IF st.previous_layer = 0
    THEN [st EXCEPT
            !.layers = GrapherAddLayer(st.layers,
                          NewLayer("Input", InputName, NoGrad, "input_classes", model)),
            !.previous_layer = Len(st.layers) + 1]
    ELSE st

\* every pooling class has a caption: previous_layer.output_props[...] = ...
PoolingBranch(st) ==
    IF st.previous_layer = 0
    THEN Raise(st, "AttributeError")
    ELSE [st EXCEPT !.layers[st.previous_layer].pooling = TRUE]

ActivationBranch(st) ==
    IF st.previous_layer /= 0
    THEN [st EXCEPT !.layers[st.previous_layer].activation = "standalone"]
    ELSE st

\* One iteration of "for keras_layer in self.model.layers"
WalkLayer(st, kl, i, model, grads) ==
    LET b == IF kl.cls \in WeightClasses THEN WeightBranch(st, kl, i, model, grads)
             ELSE IF kl.cls = "Flatten" THEN FlattenBranch(st, model)
             ELSE IF kl.cls = PoolingClass THEN PoolingBranch(st)
             ELSE IF kl.cls = "Activation" THEN ActivationBranch(st)
             ELSE st
    IN IF b.exc /= "none" THEN [b EXCEPT !.failed_at = i]
       ELSE [b EXCEPT !.idx_grads = st.idx_grads + Len(TrainableWeights(kl, i)),
                      !.training_props = (kl.cls = "Dropout"),
                      !.input_props = (kl.cls = "BatchNormalization")]

RECURSIVE Walk(_, _, _, _)
Walk(st, i, model, grads) ==
    IF i > Len(model.layers) \/ st.exc /= "none" THEN st
    ELSE Walk(WalkLayer(st, model.layers[i], i, model, grads), i + 1, model, grads)

\* Input placeholder if the first layer has weights; get_weights()[0].shape[-2]
\* does not exist for the one-dimensional gamma of BatchNormalization
InputPlaceholder(st, model) ==
    LET first == model.layers[1]
    IN IF NumWeights(first) = 0 THEN st
       ELSE IF first.cls = "BatchNormalization" THEN Raise(st, "IndexError")
       ELSE [st EXCEPT
               !.layers = GrapherAddLayer(st.layers,
                             NewLayer("Input", InputName, NoGrad, "input_classes", model)),
               !.previous_layer = Len(st.layers) + 1]

\* self.grapher.layers[-1].unit_names = self.test_data.output_classes
SetOutputClasses(st, td) ==
    IF st.exc /= "none" \/ ~td.output_classes THEN st
    ELSE IF st.layers = <<>> THEN Raise(st, "IndexError")
    ELSE [st EXCEPT !.layers[Len(st.layers)].unit_names = "output_classes"]

\* process: [exc, layers] from the grapher's layers before the call
process(layers, model, td, tape_ok) ==
    IF ~model.sequential
    THEN [exc |-> "ModelError", failed_at |-> NotInLoop, layers |-> layers]
    ELSE IF Len(model.layers) = 0
    THEN [exc |-> "none", failed_at |-> NotInLoop, layers |-> layers]
    ELSE LET st0 == [layers |-> GrapherReset(layers), previous_layer |-> 0,
                     idx_grads |-> 0, training_props |-> FALSE,
                     input_props |-> FALSE, exc |-> "none",
                     failed_at |-> NotInLoop]
             grads == compute_gradients(model, td, tape_ok)
             st1 == InputPlaceholder(st0, model)
             st2 == Walk(st1, 1, model, grads)
             st3 == SetOutputClasses(st2, td)
         IN [exc |-> st3.exc, failed_at |-> st3.failed_at, layers |-> st3.layers]

----------------------------------------------------------------------------
(* Paths: the characters of a file name after the literal part of the      *)
(* pattern that comes before the {epoch} tag                                *)

Digits == {"0", "1", "2"}
Letters == {"a", "x"}

\* the literal part of the pattern after the {epoch} tag
Tails == {<<>>, <<"x">>}

DigitValue(c) == CASE c = "0" -> 0 [] c = "1" -> 1 [] c = "2" -> 2

\* int(text) for a text of digits
RECURSIVE IntOf(_)
IntOf(text) ==
    IF text = <<>> THEN 0
    ELSE 10 * IntOf(SubSeq(text, 1, Len(text) - 1)) + DigitValue(Last(text))

StartsWith(text, from, lit) ==
    /\ from + Len(lit) - 1 <= Len(text)
    /\ SubSeq(text, from, from + Len(lit) - 1) = lit

\* glob of '[0-9]*' followed by the tail: a digit, anything, then the tail
GlobMatches(name, tail) ==
    /\ Len(name) >= 1 + Len(tail)
    /\ name[1] \in Digits
    /\ StartsWith(name, Len(name) - Len(tail) + 1, tail)

\* the lengths of the runs of digits the name starts with
DigitRuns(name) == {j \in 0..Len(name) : \A k \in 1..j : name[k] \in Digits}

\* re.search of '([0-9]*)' followed by the tail: the greedy group, backing off
\* until the tail follows it; {} stands for None (no match)
EpochGroups(name, tail) == {j \in DigitRuns(name) : StartsWith(name, j + 1, tail)}

SetMax(S) == CHOOSE x \in S : \A y \in S : y <= x
SetMin(S) == CHOOSE x \in S : \A y \in S : x <= y

EpochOf(name, tail) == IntOf(SubSeq(name, 1, SetMax(EpochGroups(name, tail))))

\* sort(reverse=True)
RECURSIVE SortedDescending(_)
SortedDescending(S) ==
    IF S = {} THEN <<>> ELSE <<SetMax(S)>> \o SortedDescending(S \ {SetMax(S)})

\* list.sort() of a list of distinct integers
RECURSIVE SortedList(_)
SortedList(S) ==
    IF S = {} THEN <<>> ELSE <<SetMin(S)>> \o SortedList(S \ {SetMin(S)})

\* the dict comprehension: the last path of the list with that epoch
RECURSIVE Checkpoints(_, _)
Checkpoints(paths, tail) ==
    IF paths = <<>> THEN <<>>
    ELSE LET rest == Checkpoints(SubSeq(paths, 1, Len(paths) - 1), tail)
             key == EpochOf(Last(paths), tail)
         IN [k \in (DOMAIN rest) \cup {key} |->
                IF k = key THEN Last(paths) ELSE rest[k]]

----------------------------------------------------------------------------
(* State after construction *)

TestDatas == [has_test_sample : BOOLEAN, output_classes : BOOLEAN]

NoCall == [name |-> "none", arg |-> <<>>, index |-> -1]

\* a call's outcome: the exception raised ("none": returned normally) and the
\* value returned: None, an int (val), or data read from a model (model)
Result(exc, kind, val, model) == [exc |-> exc, kind |-> kind, val |-> val, model |-> model]
Raised(exc) == Result(exc, "None", -1, "None")
ReturnedNone == Result("none", "None", -1, "None")
ReturnedInt(v) == Result("none", "int", v, "None")

\* KerasModelSequence.__init__ and AbstractModelSequence.__init__
InitSequence ==
    /\ model_paths = <<>>
    /\ number_epochs = 0
    /\ current_epoch_index = -1
    /\ current_model = NoModel
    /\ grapher = [properties |-> "None", layers |-> <<>>]
    /\ op = NoCall
    /\ ret = ReturnedNone
    /\ navs = <<>>

----------------------------------------------------------------------------
(* The files on disk *)

Dense(trainable, use_bias) ==
    [cls |-> "Dense", trainable |-> trainable, use_bias |-> use_bias]
Conv2D(trainable, use_bias) ==
    [cls |-> "Conv2D", trainable |-> trainable, use_bias |-> use_bias]
Plain(cls) == [cls |-> cls, trainable |-> TRUE, use_bias |-> FALSE]

\* The files of the directory: two Sequential models, one Sequential model
\* without layers, one whose first layer is a pooling layer, and (under a
\* name the glob of an {epoch} pattern does not match) one model that is not
\* Sequential. Every other path does not exist.
Disk ==
    {[path |-> <<"1">>,
      model |-> KerasModel("dense", TRUE, <<Dense(TRUE, TRUE), Dense(TRUE, TRUE)>>)],
     [path |-> <<"0", "1">>,
      model |-> KerasModel("conv", TRUE,
                   <<Conv2D(TRUE, TRUE), Plain("Flatten"), Dense(TRUE, FALSE)>>)],
     [path |-> <<"2">>, model |-> KerasModel("empty", TRUE, <<>>)],
     [path |-> <<"a">>, model |-> KerasModel("functional", FALSE, <<>>)],
     [path |-> <<"1", "a", "x">>,
      model |-> KerasModel("pool", TRUE, <<Plain(PoolingClass), Dense(TRUE, TRUE)>>)]}

DiskPaths == {f.path : f \in Disk}
MissingPath == <<"0">>

\* Path(p).exists()
Exists(p) == p \in DiskPaths

\* keras.models.load_model(p) of an existing path
LoadedFrom(p) == (CHOOSE f \in Disk : f.path = p).model

\* glob.glob: the matching files, each once, in any order
RECURSIVE Orderings(_)
Orderings(S) ==
    IF S = {} THEN {<<>>}
    ELSE UNION {{<<x>> \o o : o \in Orderings(S \ {x})} : x \in S}

DiskGlobs == [tail \in Tails |-> Orderings({p \in DiskPaths : GlobMatches(p, tail)})]

----------------------------------------------------------------------------
(* KerasModelSequence: reset, load_single, load_sequence *)

Call(name, arg, index) == [name |-> name, arg |-> arg, index |-> index]

\* AbstractModelSequence.reset
AbstractReset == [number_epochs |-> 0, current_epoch_index |-> -1]

\* a reset that forgets "self.current_model = None"
resetKeepingModel ==
    [number_epochs |-> AbstractReset.number_epochs,
     current_epoch_index |-> AbstractReset.current_epoch_index,
     model_paths |-> <<>>,
     current_model |-> current_model]

\* KerasModelSequence.reset: the fields after the call
reset ==
    [number_epochs |-> AbstractReset.number_epochs,
     current_epoch_index |-> AbstractReset.current_epoch_index,
     model_paths |-> <<>>,
     current_model |-> NoModel]

Reset ==
    /\ number_epochs' = reset.number_epochs
    /\ current_epoch_index' = reset.current_epoch_index
    /\ model_paths' = reset.model_paths
    /\ current_model' = reset.current_model
    /\ op' = Call("reset", <<>>, -1)
    /\ ret' = ReturnedNone
    /\ navs' = <<>>
    /\ UNCHANGED <<grapher, test_data, x_in, x_out>>

load_single(file_path) ==
    /\ current_epoch_index' = reset.current_epoch_index
    /\ current_model' = reset.current_model
    /\ number_epochs' = 1
    /\ model_paths' = <<file_path>>
    /\ op' = Call("load_single", file_path, -1)
    /\ ret' = ReturnedNone
    /\ navs' = <<>>
    /\ UNCHANGED <<grapher, test_data, x_in, x_out>>

\* model_paths of load_sequence: the checkpoints by ascending epoch
SequencePaths(paths, tail) ==
    LET checkpoints == Checkpoints(paths, tail)
        checkpoint_epochs == SortedList(DOMAIN checkpoints)
    IN [i \in 1..Len(checkpoint_epochs) |-> checkpoints[checkpoint_epochs[i]]]

\* load_sequence with a pattern ending in tail, glob returning paths; the
\* regular expression not matching a path (search(...) is None) ends the
\* call with AttributeError after the reset
load_sequence(tail, paths) ==
    /\ current_epoch_index' = reset.current_epoch_index
    /\ current_model' = reset.current_model
    /\ IF \E i \in 1..Len(paths) : EpochGroups(paths[i], tail) = {}
       THEN /\ model_paths' = reset.model_paths
            /\ number_epochs' = reset.number_epochs
            /\ ret' = Raised("AttributeError")
       ELSE /\ model_paths' = SequencePaths(paths, tail)
            /\ number_epochs' = Len(SequencePaths(paths, tail))
            /\ ret' = ReturnedNone
    /\ op' = Call("load_sequence", tail, -1)
    /\ navs' = <<>>
    /\ UNCHANGED <<grapher, test_data>>

LoadSingle ==
    \E file_path \in DiskPaths \cup {MissingPath} : load_single(file_path)

LoadSequence ==
    \E tail \in Tails : \E paths \in DiskGlobs[tail] :
        load_sequence(tail, paths) /\ UNCHANGED <<x_in, x_out>>

----------------------------------------------------------------------------
(* KerasModelSequence: loading the model of one epoch *)

\* _load_keras_model(model_index): ModelError when the path does not exist
_load_keras_model(model_index) ==
    LET model_path == model_paths[model_index + 1]
    IN IF ~Exists(model_path)
       THEN [exc |-> "ModelError", model |-> NoModel]
       ELSE [exc |-> "none", model |-> LoadedFrom(model_path)]

\* tf_bridge.keras_set_model_properties(grapher, model): the top level
\* properties of the grapher are those of the model
keras_set_model_properties(g, model) == [g EXCEPT !.properties = model.id]

\* _load_model(grapher, model_index): the fields after the call and how it
\* ended; an exception leaves what was assigned before it
_load_model(model_index, tape_ok) ==
    LET loaded == _load_keras_model(model_index)
        g1 == keras_set_model_properties(grapher, loaded.model)
        extracted == process(g1.layers, loaded.model, test_data, tape_ok)
        g2 == [g1 EXCEPT !.layers = extracted.layers]
    IN IF loaded.exc /= "none"
       THEN [current_model |-> current_model, grapher |-> grapher,
             current_epoch_index |-> current_epoch_index,
             ret |-> Raised(loaded.exc)]
       ELSE IF extracted.exc /= "none"
       THEN [current_model |-> loaded.model, grapher |-> g2,
             current_epoch_index |-> current_epoch_index,
             ret |-> Raised(extracted.exc)]
       ELSE [current_model |-> loaded.model, grapher |-> g2,
             current_epoch_index |-> model_index,
             ret |-> ReturnedInt(model_index)]

Apply(after) ==
    /\ current_model' = after.current_model
    /\ grapher' = after.grapher
    /\ current_epoch_index' = after.current_epoch_index
    /\ ret' = after.ret

\* a call of _load_model with an index of the sequence
LoadModel ==
    \E model_index \in 0..(Len(model_paths) - 1) : \E tape_ok \in BOOLEAN :
        /\ Apply(_load_model(model_index, tape_ok))
        /\ op' = Call("_load_model", <<>>, model_index)
        /\ navs' = <<>>
        /\ UNCHANGED <<model_paths, number_epochs, test_data, x_in, x_out>>

----------------------------------------------------------------------------
(* AbstractModelSequence: epoch navigation, each a guarded _load_model *)

NavTarget(nav) ==
    CASE nav = "first_epoch" -> 0
      [] nav = "previous_epoch" -> current_epoch_index - 1
      [] nav = "next_epoch" -> current_epoch_index + 1
      [] nav = "last_epoch" -> number_epochs - 1

NavGuard(nav) ==
    CASE nav = "first_epoch" -> number_epochs > 0
      [] nav = "previous_epoch" -> current_epoch_index > 0
      [] nav = "next_epoch" -> current_epoch_index < number_epochs - 1
      [] nav = "last_epoch" -> number_epochs > 0

\* first_epoch, previous_epoch, next_epoch, last_epoch
Navigate(nav, tape_ok) ==
    IF NavGuard(nav)
    THEN _load_model(NavTarget(nav), tape_ok)
    ELSE [current_model |-> current_model, grapher |-> grapher,
          current_epoch_index |-> current_epoch_index,
          ret |-> ReturnedInt(current_epoch_index)]

----------------------------------------------------------------------------
(* TopPane: the callback of the four navigation buttons *)

Buttons == {"top-fast-backward", "top-step-backward", "top-step-forward",
            "top-fast-forward"}

\* callback_context.triggered: the prop_ids that fired, "." when Dash calls
\* the callback on page load
Triggered == {<<>>} \cup {<<b>> : b \in Buttons \cup {"."}}
             \cup {<<a, "top-fast-forward">> : a \in Buttons}

button_id(triggered) == IF triggered = <<>> THEN "no_clicks" ELSE triggered[1]

\* the chain with the two forward buttons taken in the order of the Inputs
DispatchSwapped(id) ==
    CASE id = "top-fast-backward" -> <<"first_epoch">>
      [] id = "top-step-backward" -> <<"previous_epoch">>
      [] id = "top-fast-forward" -> <<"next_epoch">>
      [] id = "top-step-forward" -> <<"last_epoch">>
      [] OTHER -> <<>>

\* the if / elif chain of sequence_move: the navigation methods it calls
Dispatch(id) ==
    CASE id = "top-fast-backward" -> <<"first_epoch">>
      [] id = "top-step-backward" -> <<"previous_epoch">>
      [] id = "top-fast-forward" -> <<"last_epoch">>
      [] id = "top-step-forward" -> <<"next_epoch">>
      [] OTHER -> <<>>

sequence_move(triggered, tape_ok) ==
    LET called == Dispatch(button_id(triggered))
    IN /\ navs' = called
       /\ op' = Call("sequence_move", triggered, -1)
       /\ IF called = <<>>
          THEN /\ ret' = ReturnedNone
               /\ UNCHANGED <<current_model, grapher, current_epoch_index>>
          ELSE Apply(Navigate(called[1], tape_ok))
       /\ UNCHANGED <<model_paths, number_epochs, test_data, x_in, x_out>>

SequenceMove ==
    \E triggered \in Triggered : \E tape_ok \in BOOLEAN :
        sequence_move(triggered, tape_ok)

----------------------------------------------------------------------------
(* KerasModelSequence: get_input_geometry, get_activation *)

\* taking the displayed model as reference instead of the first
DisplayedIndex == IF current_epoch_index > 0 THEN current_epoch_index ELSE 0

\* the index of the model get_input_geometry loads
GeometryIndex == 0

\* get_input_geometry: the dtype and shape of the input of a model
get_input_geometry ==
    IF number_epochs = 0 THEN Raised("ModelError")
    ELSE LET loaded == _load_keras_model(GeometryIndex)
         IN IF loaded.exc /= "none" THEN Raised(loaded.exc)
            ELSE Result("none", "geometry", -1, loaded.model.id)

GetInputGeometry ==
    /\ ret' = get_input_geometry
    /\ op' = Call("get_input_geometry", <<>>, -1)
    /\ navs' = <<>>
    /\ UNCHANGED <<model_paths, number_epochs, current_epoch_index,
                   current_model, grapher, test_data, x_in, x_out>>

\* names of the layers of a Keras model: their positions; a layer of the
\* grapher is named after its Keras layer, the input placeholder is not
LayerNames(model) == 1..Len(model.layers)

\* cur_layer.get_layer(name=...) : "found", or the exception raised. Only a
\* model has get_layer; the layers of the models on disk are plain layers.
GetLayer(is_model, model, name) ==
    IF ~is_model \/ model = NoModel THEN "AttributeError"
    ELSE IF name \in LayerNames(model) THEN "found"
    ELSE "ValueError"

\* _get_keras_layer(model, name, path): "None", "tuple" (the layer and the
\* layers walked), or the exception that escapes; ValueError is caught
RECURSIVE WalkSegments(_, _, _)
WalkSegments(is_model, model, segments) ==
    IF segments = <<>> THEN [end |-> "walked", is_model |-> is_model]
    ELSE LET got == GetLayer(is_model, model, Head(segments))
         IN IF got = "ValueError" THEN [end |-> "None", is_model |-> is_model]
            ELSE IF got = "AttributeError"
            THEN [end |-> "AttributeError", is_model |-> is_model]
            ELSE WalkSegments(FALSE, model, Tail(segments))

_get_keras_layer(model, name, path) ==
    LET walked == WalkSegments(TRUE, model, path)
        got == GetLayer(walked.is_model, model, name)
    IN IF walked.end /= "walked" THEN walked.end
       ELSE IF got = "ValueError" THEN "None"
       ELSE IF got = "AttributeError" THEN "AttributeError"
       ELSE "tuple"

\* "keras_layer, access_layers = ..." : unpacking None raises TypeError
Unpack(found) ==
    IF found = "None" THEN "TypeError"
    ELSE IF found = "tuple" THEN "none"
    ELSE found

\* get_activation(img, layer, unit) with layer.name and layer.path
get_activation(name, path, predict_ok) ==
    LET found == _get_keras_layer(current_model, name, path)
    IN IF Unpack(found) /= "none" THEN Raised(Unpack(found))
       ELSE IF ~predict_ok THEN ReturnedNone
       ELSE Result("none", "maps", name, current_model.id)

ActivationNames == {0, 1, 3}
ActivationPaths == {<<>>, <<1>>, <<9>>}

GetActivation ==
    \E name \in ActivationNames : \E path \in ActivationPaths :
    \E predict_ok \in BOOLEAN :
        /\ ret' = get_activation(name, path, predict_ok)
        /\ op' = Call("get_activation", path, name)
        /\ navs' = <<>>
        /\ UNCHANGED <<model_paths, number_epochs, current_epoch_index,
                       current_model, grapher, test_data, x_in, x_out>>

----------------------------------------------------------------------------
(* The application: loads, navigation and queries in any order *)

\* the application starts without test data, or with samples and classes
Init ==
    /\ InitSequence
    /\ test_data \in {td \in TestDatas : td.has_test_sample = td.output_classes}
    /\ x_in = <<>>
    /\ x_out = <<>>

Next ==
    \/ Reset
    \/ LoadSingle
    \/ LoadSequence
    \/ LoadModel
    \/ SequenceMove
    \/ GetInputGeometry
    \/ GetActivation

Spec == Init /\ [][Next]_vars

----------------------------------------------------------------------------
(* Claims about the model sequence and the navigation callback *)

Loaded == op.name = "_load_model" /\ ret.exc = "none"

\* C1: after a _load_model(grapher, i) that returns normally,
\* current_epoch_index is i, current_model is the model of model_paths[i] and
\* every layer of the grapher was extracted from that model, also when the
\* model has no layers.
C1_GrapherHoldsLoadedModel ==
    Loaded =>
        /\ current_epoch_index = op.index
        /\ current_model = LoadedFrom(model_paths[op.index + 1])
        /\ \A k \in 1..Len(grapher.layers) :
              grapher.layers[k].model = current_model.id

\* C2: a _load_model that fails with ModelError (path missing, or model not
\* Sequential) leaves current_model, current_epoch_index and the grapher
\* as they were.
C2_FailedLoadChangesNothing ==
    [][(op'.name = "_load_model" /\ ret'.exc = "ModelError") =>
          UNCHANGED <<current_model, current_epoch_index, grapher>>]_vars

LoadCalls == {"reset", "load_single", "load_sequence"}

\* C4: number_epochs is always len(model_paths); after reset, load_single or
\* load_sequence current_model is None; after load_single(p) model_paths is
\* [p] and number_epochs is 1 whatever was loaded before; after reset
\* model_paths is empty.
C4_LoadsStartFromReset ==
    /\ number_epochs = Len(model_paths)
    /\ op.name \in LoadCalls => current_model = NoModel
    /\ op.name = "load_single" => model_paths = <<op.arg>> /\ number_epochs = 1
    /\ op.name = "reset" => model_paths = <<>>

\* a load_single that follows the display of a model of an earlier sequence
C4_Witness ==
    /\ op.name = "load_single"
    /\ grapher.layers /= <<>>
    /\ model_paths = <<op.arg>>

ExpectedNavigation(triggered) ==
    IF triggered = <<>> THEN <<>>
    ELSE IF triggered[1] = "top-fast-backward" THEN <<"first_epoch">>
    ELSE IF triggered[1] = "top-step-backward" THEN <<"previous_epoch">>
    ELSE IF triggered[1] = "top-step-forward" THEN <<"next_epoch">>
    ELSE IF triggered[1] = "top-fast-forward" THEN <<"last_epoch">>
    ELSE <<>>

\* C6: one sequence_move performs at most one navigation, the one of the
\* button that triggered it; with no trigger it performs none, leaves the
\* model sequence and the grapher unchanged and returns None.
C6_OneNavigationPerClick ==
    [][op'.name = "sequence_move" =>
          /\ Len(navs') <= 1
          /\ navs' = ExpectedNavigation(op'.arg)
          /\ op'.arg = <<>> =>
                /\ ret' = ReturnedNone
                /\ UNCHANGED <<model_paths, number_epochs, current_epoch_index,
                               current_model, grapher>>]_vars

\* a click on step-forward that moved the display to the second epoch
C6_Witness ==
    /\ op.name = "sequence_move"
    /\ op.arg = <<"top-step-forward">>
    /\ navs = <<"next_epoch">>
    /\ current_epoch_index = 1
    /\ ret = ReturnedInt(1)

\* C7: get_input_geometry raises ModelError when number_epochs is 0;
\* otherwise what it returns is read from the model of model_paths[0]
\* (ModelError when that file is missing), whatever epoch is displayed; it
\* leaves current_model, current_epoch_index and the grapher unchanged.
C7_GeometryOfFirstModel ==
    [][op'.name = "get_input_geometry" =>
          /\ UNCHANGED <<current_model, current_epoch_index, grapher>>
          /\ number_epochs = 0 => ret' = Raised("ModelError")
          /\ number_epochs /= 0 =>
                IF Exists(model_paths[1])
                THEN ret' = Result("none", "geometry", -1,
                                   LoadedFrom(model_paths[1]).id)
                ELSE ret' = Raised("ModelError")]_vars

\* the geometry is read while another epoch than the first is displayed
C7_Witness ==
    /\ op.name = "get_input_geometry"
    /\ current_epoch_index > 0
    /\ ret.kind = "geometry"
    /\ ret.model /= current_model.id

\* the layer or a segment of the path is not a layer of current_model
NotFound(name, path) ==
    \/ \E k \in 1..Len(path) : path[k] \notin LayerNames(current_model)
    \/ path = <<>> /\ name \notin LayerNames(current_model)

\* C8: get_activation returns None, without raising, when the layer name or
\* a segment of the layer path is not found in current_model.
C8_ActivationOfUnknownLayer ==
    (/\ op.name = "get_activation"
     /\ current_model /= NoModel
     /\ NotFound(op.index, op.arg)) => ret = ReturnedNone

----------------------------------------------------------------------------
(* load_sequence on its own: any pattern tail and any glob result of up to *)
(* MaxFiles files with names of up to MaxNameLen characters                 *)

\* names of digits and of the letter a pattern tail is made of
Names == SeqsUpTo(Digits \cup {"x"}, MaxNameLen) \ {<<>>}

Injective(s) == \A i, j \in 1..Len(s) : s[i] = s[j] => i = j

Globs(tail) ==
    {paths \in SeqsUpTo({n \in Names : GlobMatches(n, tail)}, MaxFiles) :
        Injective(paths)}

NoTestData == [has_test_sample |-> FALSE, output_classes |-> FALSE]

InitLoad ==
    /\ InitSequence
    /\ test_data = NoTestData
    /\ \E tail \in Tails : \E paths \in Globs(tail) :
          x_in = [tail |-> tail, paths |-> paths]
    /\ x_out = <<>>

LoadSequenceOfGlob ==
    /\ op = NoCall
    /\ load_sequence(x_in.tail, x_in.paths)
    /\ UNCHANGED <<x_in, x_out>>

NextLoad == LoadSequenceOfGlob

SpecLoad == InitLoad /\ [][NextLoad]_vars

SequenceLoaded == op.name = "load_sequence" /\ ret.exc = "none"

Epoch(path) == EpochOf(path, x_in.tail)

Positions(list, path) == {i \in 1..Len(list) : list[i] = path}

\* C3 as stated: after load_sequence every matched file is in model_paths
\* exactly once, by strictly ascending integer epoch, and number_epochs is
\* the number of matched files; two files with the same epoch are both kept.
C3_EveryMatchedFileKept ==
    SequenceLoaded =>
        /\ \A i \in 1..Len(x_in.paths) :
              Cardinality(Positions(model_paths, x_in.paths[i])) = 1
        /\ \A i, j \in 1..Len(model_paths) :
              i < j => Epoch(model_paths[i]) < Epoch(model_paths[j])
        /\ number_epochs = Len(x_in.paths)

\* C3 amended: after load_sequence model_paths holds, for every integer
\* epoch of a matched file, exactly one matched file of that epoch (the
\* last one glob returned), by strictly ascending integer epoch, and
\* number_epochs is the number of distinct epochs.
C3_OneFilePerEpoch ==
    SequenceLoaded =>
        /\ \A i \in 1..Len(model_paths) :
              /\ Positions(x_in.paths, model_paths[i]) /= {}
              /\ \A k \in 1..Len(x_in.paths) :
                    Epoch(x_in.paths[k]) = Epoch(model_paths[i]) =>
                        k <= SetMax(Positions(x_in.paths, model_paths[i]))
        /\ \A i, j \in 1..Len(model_paths) :
              i < j => Epoch(model_paths[i]) < Epoch(model_paths[j])
        /\ {Epoch(model_paths[i]) : i \in 1..Len(model_paths)}
              = {Epoch(x_in.paths[k]) : k \in 1..Len(x_in.paths)}
        /\ number_epochs = Len(model_paths)
        /\ number_epochs
              = Cardinality({Epoch(x_in.paths[k]) : k \in 1..Len(x_in.paths)})

\* two matched files of the same epoch, of which one is kept
C3_Witness ==
    /\ SequenceLoaded
    /\ \E i, j \in 1..Len(x_in.paths) :
          i /= j /\ Epoch(x_in.paths[i]) = Epoch(x_in.paths[j])
    /\ Len(model_paths) < Len(x_in.paths)
    /\ number_epochs >= 1

----------------------------------------------------------------------------
(* list_models with the default pattern '{model}_{epoch}'                  *)

\* The files a directory may hold. glob '*_[0-9]*' matches the four
\* checkpoints; the regular expression '(\w+)_([0-9]+)' needs a model name
\* before the underscore and finds none in "_1".
Checkpoint(stem, epoch) == [stem |-> stem, epoch |-> epoch]
CheckpointFiles == {Checkpoint("m", 1), Checkpoint("m", 2), Checkpoint("n", 1),
                    Checkpoint("", 1)}

Directories == [h5 : BOOLEAN, tf : BOOLEAN, checkpoints : SUBSET CheckpointFiles]

\* A listed path as a number that orders like the string: the directory
\* first, then "m_{epoch}" < "n_{epoch}" < "w.h5" < "w.tf"
PathCode(d, file) ==
    10 * d + (CASE file = "m" -> 1 [] file = "n" -> 2
                [] file = "w.h5" -> 3 [] file = "w.tf" -> 4)

\* reg2.search(path).group(1); "" stands for the failed search (None)
SequenceModelOf(checkpoint) == checkpoint.stem

\* models.sort()
Sort(list) == SortedList({list[i] : i \in 1..Len(list)})

\* the body of the loop for the directory at position d: the extended list
\* and whether the list comprehension of line 83 raised
ListDirectory(models, dir, d) ==
    LET hdf5 == IF dir.h5 THEN <<PathCode(d, "w.h5")>> ELSE <<>>
        tf == IF dir.tf THEN <<PathCode(d, "w.tf")>> ELSE <<>>
        found == {SequenceModelOf(c) : c \in dir.checkpoints}
        sequences == SortedList({PathCode(d, m) : m \in found})
    IN IF "" \in found
       THEN [raised |-> TRUE, models |-> models \o hdf5 \o tf]
       ELSE [raised |-> FALSE, models |-> models \o hdf5 \o tf \o sequences]

RECURSIVE ListDirectories(_, _, _)
ListDirectories(models, directories, d) ==
    IF d > Len(directories) THEN [raised |-> FALSE, models |-> models]
    ELSE LET listed == ListDirectory(models, directories[d], d)
         IN IF listed.raised THEN listed
            ELSE ListDirectories(listed.models, directories, d + 1)

\* traceback.format_exc(e): the exception is taken as the limit of the
\* traceback, and comparing it with 0 raises TypeError
format_exc(limit_is_exception) == IF limit_is_exception THEN "TypeError" ELSE "none"

\* list_models(directories): the exception that leaves it and the list returned
list_models(directories) ==
    LET listed == ListDirectories(<<>>, directories, 1)
    IN IF listed.raised /\ format_exc(TRUE) /= "none"
       THEN [exc |-> format_exc(TRUE), models |-> <<>>]
       ELSE [exc |-> "none", models |-> Sort(listed.models)]

NotListed == [exc |-> "not run", models |-> <<>>]

InitList ==
    /\ InitSequence
    /\ test_data = NoTestData
    /\ x_in \in SeqsUpTo(Directories, MaxDirs)
    /\ x_out = NotListed

ListModels ==
    /\ x_out = NotListed
    /\ x_out' = list_models(x_in)
    /\ UNCHANGED <<seqVars, x_in>>

NextList == ListModels

SpecList == InitList /\ [][NextList]_vars

\* C5: list_models never lets an exception reach its caller: when listing a
\* directory fails it returns the sorted list of the models collected
\* before the failure.
C5_ListModelsNeverRaises ==
    x_out /= NotListed =>
        /\ x_out.exc = "none"
        /\ x_out.models = Sort(ListDirectories(<<>>, x_in, 1).models)

----------------------------------------------------------------------------
(* The extractor on its own: process on any Sequential model of up to      *)
(* MaxLayers layers, with a grapher that is empty or holds an older layer   *)

ExtractorModels ==
    {KerasModel("m", TRUE, ls) : ls \in SeqsUpTo(KerasLayers, MaxLayers)}
    \cup {KerasModel("m", FALSE, <<>>)}

OlderLayer == NewLayer("Dense", 1, NoGrad, "none", KerasModel("older", TRUE, <<>>))

NotRun == [exc |-> "not run", failed_at |-> NotInLoop, layers |-> <<>>]

InitExtract ==
    /\ InitSequence
    /\ test_data \in TestDatas
    /\ x_in \in [model : ExtractorModels, tape_ok : BOOLEAN,
                 before : {<<>>, <<OlderLayer>>}]
    /\ x_out = NotRun

\* KerasNetworkExtractor(grapher, model, test_data).process()
ExtractorProcess ==
    /\ x_out = NotRun
    /\ x_out' = process(x_in.before, x_in.model, test_data, x_in.tape_ok)
    /\ UNCHANGED <<seqVars, x_in>>

NextExtract == ExtractorProcess

SpecExtract == InitExtract /\ [][NextExtract]_vars

----------------------------------------------------------------------------
(* Claims about the extractor *)

GradsAvailable == Truthy(compute_gradients(x_in.model, test_data, x_in.tape_ok))

WeightKinds == {"Dense", "Convo2D"}

\* C9: when gradients are available, every Dense or Conv2D layer that process
\* creates is given the gradient of its own Keras layer's kernel, and the
\* running index idx_grads never leaves the list of gradients, also with
\* frozen layers and layers without bias.
C9_KernelGradientOfSameLayer ==
    (x_out /= NotRun /\ GradsAvailable) =>
        /\ \A k \in 1..Len(x_out.layers) :
              x_out.layers[k].kind \in WeightKinds =>
                  x_out.layers[k].grad = Var(x_out.layers[k].name, "kernel")
        /\ ~(/\ x_out.exc = "IndexError"
             /\ x_out.failed_at /= NotInLoop
             /\ x_in.model.layers[x_out.failed_at].cls \in WeightClasses)

DecoratingClasses == {"Flatten", PoolingClass, "Activation"}

\* C10: a layer that only decorates the previous layer (Flatten, pooling,
\* Activation) never makes process fail, also when no layer was added before
\* it: the exception that ends process is never raised at such a layer.
C10_DecoratorWithoutPreviousLayer ==
    (x_out /= NotRun /\ x_out.failed_at /= NotInLoop) =>
        x_in.model.layers[x_out.failed_at].cls \notin DecoratingClasses

\* process reached the statement after the loop over the layers: the model
\* is Sequential and not empty, the input placeholder was built or skipped
\* and no layer of the walk raised
WalkCompleted ==
    /\ x_out /= NotRun
    /\ x_in.model.sequential
    /\ Len(x_in.model.layers) > 0
    /\ x_in.model.layers[1].cls /= "BatchNormalization"
    /\ x_out.failed_at = NotInLoop

\* C11: after process on a non-empty Sequential model with
\* test_data.output_classes not None, the last layer of the grapher has
\* unit_names == output_classes, also when the model's layers added nothing
\* to the grapher.
C11_LastLayerNamedByOutputClasses ==
    (WalkCompleted /\ test_data.output_classes) =>
        /\ x_out.exc = "none"
        /\ x_out.layers /= <<>>
        /\ Last(x_out.layers).unit_names = "output_classes"

====
